---- MODULE Spec2Model ----
(***************************************************************************)
(* BLE advertisement scanners scripts/ble_scan_manu.py (variant "manu")    *)
(* and scripts/ble_scan_uuid128.py (variant "uuid128"): allow-list         *)
(* loading, the per-advertisement callback and the run() scan driver.      *)
(*                                                                         *)
(* Strings are sequences of character codes, byte buffers are sequences    *)
(* of 0..255 (index 1 here is index 0 in Python).  A Python value that may *)
(* be None is None or Some(v).                                             *)
(***************************************************************************)
EXTENDS Integers, Sequences, FiniteSets, Bags, TLC

VARIABLES variant, mac_filter, uuid128_filter, scan_time,
          pc, remaining, exit_reason, stop_calls, air, log

\* variant         which script runs: "manu" or "uuid128"
\* mac_filter      the global mac_filter: None or a set of upper-case strings
\* uuid128_filter  the global uuid128_filter (None in the manu script)
\* scan_time       args.time: None or an integer
\* pc              where run() is: "Idle" (before scanner.start()), "Scanning"
\*                 (in the try block), "Teardown" (in the finally block),
\*                 "Stopped" (after scanner.stop()), "Failed" (start raised)
\* remaining       seconds left of the pending asyncio.sleep
\* exit_reason     how the try block was left
\* stop_calls      number of calls of scanner.stop()
\* air             the advertisement in flight to the handler, or None
\* log             the console: per handler call, the event and the lines printed
vars == <<variant, mac_filter, uuid128_filter, scan_time,
          pc, remaining, exit_reason, stop_calls, air, log>>

\* ---------------------------------------------------------------- bounds
MaxFileLines == 2
MaxEntries == 2
MaxDeliveries == 3
MaxScanTime == 2

\* ------------------------------------------------------- Python values
None == [some |-> FALSE]
Some(v) == [some |-> TRUE, val |-> v]

\* Truth value of an optional set: None and the empty set are false.
TruthySet(x) == x.some /\ x.val # {}

\* Truth value of an optional string or byte buffer: None and the empty one
\* are false.
TruthySeq(x) == x.some /\ x.val # <<>>

\* Truth value of an optional integer: None and 0 are false.
TruthyInt(x) == x.some /\ x.val # 0

IsSpace(c) == c \in {9, 10, 11, 12, 13, 32}

RECURSIVE LStrip(_)
LStrip(s) == IF s = <<>> THEN s
             ELSE IF IsSpace(Head(s)) THEN LStrip(Tail(s)) ELSE s

RECURSIVE RStrip(_)
RStrip(s) == IF s = <<>> THEN s
             ELSE IF IsSpace(s[Len(s)]) THEN RStrip(SubSeq(s, 1, Len(s) - 1)) ELSE s

Strip(s) == RStrip(LStrip(s))

Upper(s) == [i \in DOMAIN s |-> IF s[i] \in 97..122 THEN s[i] - 32 ELSE s[i]]

Lower(s) == [i \in DOMAIN s |-> IF s[i] \in 65..90 THEN s[i] + 32 ELSE s[i]]

\* payload[a:b] of Python, a and b 0-based, clipped to the buffer.
Slice(s, a, b) == SubSeq(s, a + 1, IF b < Len(s) THEN b ELSE Len(s))

\* struct.unpack("<h", b)[0]: two bytes, least significant first, read as a
\* 16-bit two's-complement integer.
\* Faulty variant: the two bytes read as unsigned ("<H").
UnpackUnsigned(b) == b[1] + b[2] * 256

UnpackS16LE(b) == (((b[1] + b[2] * 256) + 32768) % 65536) - 32768

\* ------------------------------------------------------ allow-list files
\* Lines as the file iterator yields them: "\n", "ab\n", " CD \n", "Ab".
MacFileLines == { <<10>>, <<97, 98, 10>>, <<32, 67, 68, 32, 10>>, <<65, 98>> }

\* "\n", " U1 \n".
UuidFileLines == { <<10>>, <<32, 85, 49, 32, 10>> }

FilesOver(lineSet) == UNION { [1..n -> lineSet] : n \in 0..MaxFileLines }

\* An option of the command line: not given, or naming a file that is
\* missing (None) or holds some lines.
OptionsOver(lineSet) ==
    { [given |-> FALSE, file |-> None], [given |-> TRUE, file |-> None] }
    \cup { [given |-> TRUE, file |-> Some(f)] : f \in FilesOver(lineSet) }

load_mac_list(file) ==
    IF ~file.some THEN None
    ELSE Some({ Upper(Strip(file.val[i])) :
                  i \in { j \in DOMAIN file.val : Strip(file.val[j]) # <<>> } })

load_uuid128_list(file) ==
    IF ~file.some THEN None
    ELSE Some({ Lower(Strip(file.val[i])) :
                  i \in { j \in DOMAIN file.val : Strip(file.val[j]) # <<>> } })

\* if args.macs: mac_filter = load_mac_list(args.macs)
MainMacFilter(opt) == IF opt.given THEN load_mac_list(opt.file) ELSE None

\* if args.uuid128: uuid128_filter = load_uuid128_list(args.uuid128)
MainUuidFilter(opt) == IF opt.given THEN load_uuid128_list(opt.file) ELSE None

\* The values the main block can leave in the two globals.
MacFilters == { MainMacFilter(o) : o \in OptionsOver(MacFileLines) }

Uuid128Filters == { MainUuidFilter(o) : o \in OptionsOver(UuidFileLines) }

\* ------------------------------------------------- advertisement events
\* device.address: "AB", "aB", "CD".
Addresses == { <<65, 66>>, <<97, 66>>, <<67, 68>> }

\* (device.name, advertisement_data.rssi): no name, the empty name, "T1".
DeviceInfo == { [name |-> None, rssi |-> -70],
                [name |-> Some(<<>>), rssi |-> -45],
                [name |-> Some(<<84, 49>>), rssi |-> -45] }

\* The company identifier the manufacturer-data variant reads.
CompanyId == 65535

\* Byte buffers of the manufacturer-data field.
ManuPayloads ==
    { <<>>, <<0>>, <<1>>, <<1, 16>>, <<0, 16>>, <<7, 16>>,
      <<1, 16, 14>>, <<1, 220, 9>>, <<1, 255, 255>>, <<0, 16, 14>>,
      <<10, 1, 2>>, <<1, 220, 9, 200>>, <<0, 1, 2, 3>> }

\* advertisement_data.manufacturer_data: a dict from company identifier to
\* bytes; an entry of another company (76), when present, is a temperature frame.
ManufacturerData ==
    { f \in UNION { [K -> ManuPayloads] : K \in SUBSET {CompanyId, 76} } :
        \A k \in DOMAIN f \ {CompanyId} : f[k] = <<1, 16, 14>> }

\* Service-data UUID keys as the stack hands them over: "u1", "U1", "u2".
Uuids == { <<117, 49>>, <<85, 49>>, <<117, 50>> }

\* Byte buffers of a service-data entry.
SdPayloads ==
    { <<>>, <<0>>, <<1>>, <<1, 100>>, <<1, 100, 0>>, <<0, 100, 0>>, <<10, 1, 2>> }

\* advertisement_data.service_data: a dict, here the sequence of its
\* (key, value) pairs in iteration order; keys are distinct.
ServiceData ==
    { s \in UNION { [1..n -> Uuids \X SdPayloads] : n \in 0..MaxEntries } :
        \A i, j \in DOMAIN s : i # j => s[i][1] # s[j][1] }

Event(addr, info, md, sd) ==
    [address |-> addr, name |-> info.name, rssi |-> info.rssi,
     manufacturer_data |-> md, service_data |-> sd]

\* The events each script is fed: it reads one of the two data fields only.
ManuEvents ==
    { Event(a, i, md, <<>>) : a \in Addresses, i \in DeviceInfo, md \in ManufacturerData }

Uuid128Events ==
    { Event(a, i, <<>>, sd) : a \in Addresses, i \in DeviceInfo, sd \in ServiceData }

\* ------------------------------------------------------------- handlers
\* "Desconhecido"
Desconhecido == <<68, 101, 115, 99, 111, 110, 104, 101, 99, 105, 100, 111>>

\* nome = device.name or "Desconhecido"
Nome(e) == IF TruthySeq(e.name) THEN e.name.val ELSE Desconhecido

\* The two lines the handlers print; uuid is <<>> in the manufacturer-data
\* variant, whose lines carry none.  centi is t_centi, printed as t_centi / 100.0.
TempLine(e, centi, uuid) ==
    [kind |-> "temp", address |-> e.address, rssi |-> e.rssi,
     val |-> centi, uuid |-> uuid, nome |-> Nome(e)]

UnknownLine(e, sensor_type, uuid) ==
    [kind |-> "unknown", address |-> e.address, rssi |-> e.rssi,
     val |-> sensor_type, uuid |-> uuid, nome |-> Nome(e)]

\* dict.get(k)
DictGet(d, k) == IF k \in DOMAIN d THEN Some(d[k]) ELSE None

\* ---- scripts/ble_scan_manu.py
\* Faulty variant: the payload of the lowest company identifier present.
parse_any_company(e) ==
    LET ks == DOMAIN e.manufacturer_data
        payload == IF ks = {} THEN None
                   ELSE Some(e.manufacturer_data[CHOOSE k \in ks : \A m \in ks : k <= m])
    IN  IF ~TruthySeq(payload) \/ Len(payload.val) < 3
        THEN <<None, None>>
        ELSE <<Some(payload.val[1]), Some(Slice(payload.val, 1, 3))>>

parse_sensor_type_and_value(e) ==
    LET payload == DictGet(e.manufacturer_data, CompanyId)
    IN  IF ~TruthySeq(payload) \/ Len(payload.val) < 3
        THEN <<None, None>>
        ELSE <<Some(payload.val[1]), Some(Slice(payload.val, 1, 3))>>

\* Faulty variant: the address compared as received.
mac_rejects_no_upper(e, macf) == TruthySet(macf) /\ e.address \notin macf.val

\* if mac_filter and device.address.upper() not in mac_filter: return
mac_rejects_manu(e, macf) == TruthySet(macf) /\ Upper(e.address) \notin macf.val

callback_manu(e, macf) ==
    IF mac_rejects_manu(e, macf)
    THEN [rejected |-> TRUE, parsed |-> 0, lines |-> <<>>]
    ELSE LET r == parse_sensor_type_and_value(e)
             sensor_type == r[1]
             value_bytes == r[2]
         IN  [rejected |-> FALSE, parsed |-> 1,
              lines |-> IF sensor_type = None THEN <<>>
                        ELSE IF sensor_type.val = 1
                             THEN << TempLine(e, UnpackS16LE(value_bytes.val), <<>>) >>
                        ELSE IF sensor_type.val # 0
                             THEN << UnknownLine(e, sensor_type.val, <<>>) >>
                        ELSE <<>>]

\* ---- scripts/ble_scan_uuid128.py
\* sd = advertisement_data.service_data or {}; yield uuid_str.lower(), payload
get_service_data_payload(e) ==
    [i \in DOMAIN e.service_data |->
        <<Lower(e.service_data[i][1]), e.service_data[i][2]>>]

parse_service_data(payload) ==
    IF payload = <<>> \/ Len(payload) < 1
    THEN <<None, None>>
    ELSE <<Some(payload[1]),
           IF Len(payload) >= 3 THEN Some(Slice(payload, 1, 3)) ELSE None>>

\* if mac_filter is not None and device.address.upper() not in mac_filter: return
mac_rejects_uuid128(e, macf) == macf.some /\ Upper(e.address) \notin macf.val

\* Faulty variant: an empty UUID list treated as no list.
uuid_skipped_truthy(uuid_str, uuidf) == TruthySet(uuidf) /\ uuid_str \notin uuidf.val

\* if uuid128_filter is not None and uuid_str not in uuid128_filter: continue
uuid_skipped(uuid_str, uuidf) == uuidf.some /\ uuid_str \notin uuidf.val

\* Faulty variant: the unknown-sensor branch as a plain else.
entry_lines_prints_zero(e, uuid_str, payload) ==
    LET r == parse_service_data(payload)
        sensor_type == r[1]
        value_bytes == r[2]
    IN  IF sensor_type = None THEN <<>>
        ELSE IF sensor_type.val = 1 /\ value_bytes # None
             THEN << TempLine(e, UnpackS16LE(value_bytes.val), uuid_str) >>
        ELSE << UnknownLine(e, sensor_type.val, uuid_str) >>

\* The body of the for loop for one (uuid_str, payload) pair that is not skipped.
entry_lines(e, uuid_str, payload) ==
    LET r == parse_service_data(payload)
        sensor_type == r[1]
        value_bytes == r[2]
    IN  IF sensor_type = None THEN <<>>
        ELSE IF sensor_type.val = 1 /\ value_bytes # None
             THEN << TempLine(e, UnpackS16LE(value_bytes.val), uuid_str) >>
        ELSE IF sensor_type.val # 0
             THEN << UnknownLine(e, sensor_type.val, uuid_str) >>
        ELSE <<>>

\* for uuid_str, payload in get_service_data_payload(advertisement_data): ...
RECURSIVE service_loop(_, _, _)
service_loop(e, pairs, uuidf) ==
    IF pairs = <<>> THEN [parsed |-> 0, lines |-> <<>>]
    ELSE LET rest == service_loop(e, Tail(pairs), uuidf)
             uuid_str == Head(pairs)[1]
             payload == Head(pairs)[2]
         IN  IF uuid_skipped(uuid_str, uuidf) THEN rest
             ELSE [parsed |-> rest.parsed + 1,
                   lines |-> entry_lines(e, uuid_str, payload) \o rest.lines]

callback_uuid128(e, macf, uuidf) ==
    IF mac_rejects_uuid128(e, macf)
    THEN [rejected |-> TRUE, parsed |-> 0, lines |-> <<>>]
    ELSE LET r == service_loop(e, get_service_data_payload(e), uuidf)
         IN  [rejected |-> FALSE, parsed |-> r.parsed, lines |-> r.lines]

\* One entry of the console log: the event handled and what the call did.
LogEntry(e, r) ==
    [ev |-> e, rejected |-> r.rejected, parsed |-> r.parsed, lines |-> r.lines]

\* ------------------------------------------------------- state machine
Variants == {"manu", "uuid128"}

\* The stack hands the advertisement in flight to the handler registered with
\* BleakScanner, between scanner.start() and the end of scanner.stop().
Receiving == pc \in {"Scanning", "Teardown"} /\ air.some /\ Len(log) < MaxDeliveries

\* Faulty variant: the handler drops an address from the list once handled.
CallbackManuForgets ==
    /\ variant = "manu"
    /\ Receiving
    /\ log' = Append(log, LogEntry(air.val, callback_manu(air.val, mac_filter)))
    /\ mac_filter' = IF mac_filter.some
                     THEN Some(mac_filter.val \ {Upper(air.val.address)})
                     ELSE mac_filter
    /\ air' = None
    /\ UNCHANGED <<variant, uuid128_filter, scan_time,
                   pc, remaining, exit_reason, stop_calls>>

CallbackManu ==
    /\ variant = "manu"
    /\ Receiving
    /\ log' = Append(log, LogEntry(air.val, callback_manu(air.val, mac_filter)))
    /\ air' = None
    /\ UNCHANGED <<variant, mac_filter, uuid128_filter, scan_time,
                   pc, remaining, exit_reason, stop_calls>>

CallbackUuid128 ==
    /\ variant = "uuid128"
    /\ Receiving
    /\ log' = Append(log, LogEntry(air.val, callback_uuid128(air.val, mac_filter, uuid128_filter)))
    /\ air' = None
    /\ UNCHANGED <<variant, mac_filter, uuid128_filter, scan_time,
                   pc, remaining, exit_reason, stop_calls>>

\* The state once the main block has loaded the allow-lists and run() has
\* started the scanner with no -t: one advertisement is in flight.
Init ==
    /\ variant \in Variants
    /\ mac_filter \in MacFilters
    /\ uuid128_filter \in IF variant = "uuid128" THEN Uuid128Filters ELSE {None}
    /\ scan_time = None
    /\ pc = "Scanning"
    /\ remaining = 1
    /\ exit_reason = "none"
    /\ stop_calls = 0
    /\ \E e \in IF variant = "manu" THEN ManuEvents ELSE Uuid128Events : air = Some(e)
    /\ log = <<>>

Next == CallbackManu \/ CallbackUuid128

Spec == Init /\ [][Next]_vars


\* ------------------------------------------------------ payload decoding
\* Temperature frames over every value of the two value bytes, alone or
\* followed by one more byte.
DecodePayloads ==
    { <<1, lo, hi>> \o t : lo \in 0..255, hi \in 0..255, t \in { <<>>, <<200>> } }

DecodeManuEvents ==
    { Event(<<65, 66>>, [name |-> None, rssi |-> -70], [k \in {CompanyId} |-> p], <<>>) :
        p \in DecodePayloads }

DecodeUuid128Events ==
    { Event(<<65, 66>>, [name |-> None, rssi |-> -70], <<>>, << <<<<117, 49>>, p>> >>) :
        p \in DecodePayloads }

\* Either script started with no option, one temperature frame in flight.
InitDecode ==
    /\ variant \in Variants
    /\ mac_filter = None
    /\ uuid128_filter = None
    /\ scan_time = None
    /\ pc = "Scanning"
    /\ remaining = 1
    /\ exit_reason = "none"
    /\ stop_calls = 0
    /\ \E e \in IF variant = "manu" THEN DecodeManuEvents ELSE DecodeUuid128Events : air = Some(e)
    /\ log = <<>>

SpecDecode == InitDecode /\ [][Next]_vars

\* ------------------------------------------------------------ run(scan_time)
\* args.time: -t omitted, or an integer (argparse type=int).
ScanTimes == {None} \cup { Some(n) : n \in (-1)..MaxScanTime }

\* The advertisements around during a run.
RunManuEvents ==
    { Event(<<65, 66>>, [name |-> None, rssi |-> -70], [k \in {CompanyId} |-> <<1, 16, 14>>], <<>>),
      Event(<<97, 66>>, [name |-> Some(<<84, 49>>), rssi |-> -45], [k \in {CompanyId} |-> <<10, 1, 2>>], <<>>),
      Event(<<67, 68>>, [name |-> None, rssi |-> -70], [k \in {CompanyId} |-> <<1, 220, 9>>], <<>>) }

RunUuid128Events ==
    { Event(<<65, 66>>, [name |-> None, rssi |-> -70], <<>>, << <<<<85, 49>>, <<1, 100, 0>>>> >>),
      Event(<<97, 66>>, [name |-> Some(<<84, 49>>), rssi |-> -45], <<>>,
            << <<<<117, 50>>, <<10, 1, 2>>>>, <<<<117, 49>>, <<1, 100>>>> >>),
      Event(<<67, 68>>, [name |-> None, rssi |-> -70], <<>>, << <<<<117, 49>>, <<1, 220, 9>>>> >>) }

RunEvents == IF variant = "manu" THEN RunManuEvents ELSE RunUuid128Events

\* The allow-lists of a run: no option, an empty file, a one-line file.
RunMacFilters ==
    { MainMacFilter(o) : o \in { [given |-> FALSE, file |-> None],
                                 [given |-> TRUE, file |-> Some(<<>>)],
                                 [given |-> TRUE, file |-> Some(<< <<97, 98, 10>> >>)] } }

RunUuid128Filters ==
    { MainUuidFilter(o) : o \in { [given |-> FALSE, file |-> None],
                                  [given |-> TRUE, file |-> Some(<< <<85, 49, 10>> >>)] } }

\* The main block has parsed the options and loaded the allow-lists, and
\* run(args.time) is about to await scanner.start().
InitRun ==
    /\ variant \in Variants
    /\ mac_filter \in RunMacFilters
    /\ uuid128_filter \in IF variant = "uuid128" THEN RunUuid128Filters ELSE {None}
    /\ scan_time \in ScanTimes
    /\ pc = "Idle"
    /\ remaining = 0
    /\ exit_reason = "none"
    /\ stop_calls = 0
    /\ air = None
    /\ log = <<>>

\* A device broadcasts an advertisement; one not yet handled is lost.
Broadcast ==
    /\ \E e \in RunEvents : air' = Some(e)
    /\ UNCHANGED <<variant, mac_filter, uuid128_filter, scan_time,
                   pc, remaining, exit_reason, stop_calls, log>>

\* await scanner.start() returns: the try block is entered and the first
\* asyncio.sleep is armed, sleep(scan_time) if scan_time is true, else sleep(1).
Start ==
    /\ pc = "Idle"
    /\ pc' = "Scanning"
    /\ remaining' = IF TruthyInt(scan_time) THEN scan_time.val ELSE 1
    /\ UNCHANGED <<variant, mac_filter, uuid128_filter, scan_time,
                   exit_reason, stop_calls, air, log>>

\* await scanner.start() raises: the exception leaves run() before the try.
StartFails ==
    /\ pc = "Idle"
    /\ pc' = "Failed"
    /\ exit_reason' = "setup_failure"
    /\ UNCHANGED <<variant, mac_filter, uuid128_filter, scan_time,
                   remaining, stop_calls, air, log>>

\* One second of the pending asyncio.sleep passes.
Tick ==
    /\ pc = "Scanning"
    /\ remaining > 0
    /\ remaining' = remaining - 1
    /\ UNCHANGED <<variant, mac_filter, uuid128_filter, scan_time,
                   pc, exit_reason, stop_calls, air, log>>

\* The pending asyncio.sleep returns: after sleep(scan_time) the try block
\* ends and the finally block is entered; in the while True loop the next
\* sleep(1) is armed.
SleepReturns ==
    /\ pc = "Scanning"
    /\ remaining <= 0
    /\ IF TruthyInt(scan_time)
       THEN pc' = "Teardown" /\ exit_reason' = "timeout" /\ UNCHANGED remaining
       ELSE remaining' = 1 /\ UNCHANGED <<pc, exit_reason>>
    /\ UNCHANGED <<variant, mac_filter, uuid128_filter, scan_time,
                   stop_calls, air, log>>

\* Faulty variant: scanner.stop() outside any finally, skipped on interrupt.
InterruptSkipsFinally ==
    /\ pc = "Scanning"
    /\ pc' = "Stopped"
    /\ exit_reason' = "interrupt"
    /\ UNCHANGED <<variant, mac_filter, uuid128_filter, scan_time,
                   remaining, stop_calls, air, log>>

\* KeyboardInterrupt is raised in the try block: the except clause prints
\* and the finally block is entered.
Interrupt ==
    /\ pc = "Scanning"
    /\ pc' = "Teardown"
    /\ exit_reason' = "interrupt"
    /\ UNCHANGED <<variant, mac_filter, uuid128_filter, scan_time,
                   remaining, stop_calls, air, log>>

\* Any other exception is raised in the try block (a cancellation, an error of
\* the event loop): no except clause matches and the finally block is entered.
Fault ==
    /\ pc = "Scanning"
    /\ pc' = "Teardown"
    /\ exit_reason' = "failure"
    /\ UNCHANGED <<variant, mac_filter, uuid128_filter, scan_time,
                   remaining, stop_calls, air, log>>

\* finally: await scanner.stop(); then run() returns or re-raises.
Stop ==
    /\ pc = "Teardown"
    /\ stop_calls' = stop_calls + 1
    /\ pc' = "Stopped"
    /\ UNCHANGED <<variant, mac_filter, uuid128_filter, scan_time,
                   remaining, exit_reason, air, log>>

NextRun ==
    \/ Start
    \/ StartFails
    \/ Tick
    \/ SleepReturns
    \/ Interrupt
    \/ Fault
    \/ Stop
    \/ Broadcast
    \/ CallbackManu
    \/ CallbackUuid128

SpecRun == InitRun /\ [][NextRun]_vars

\* The event loop runs every ready coroutine and every timer expires: a
\* pending start, sleep or stop eventually completes.  Nothing obliges the
\* user to interrupt or a fault to happen.
FairSpecRun ==
    /\ SpecRun
    /\ WF_vars(Start \/ StartFails)
    /\ WF_vars(Tick)
    /\ WF_vars(SleepReturns)
    /\ WF_vars(Stop)

\* --------------------------------------------------------------- claims
Range(s) == { s[i] : i \in DOMAIN s }

BagOfSeq(s) == [x \in Range(s) |-> Cardinality({ i \in DOMAIN s : s[i] = x })]

Perms(n) == { f \in [1..n -> 1..n] : \A i, j \in 1..n : i # j => f[i] # f[j] }

\* The 0xFFFF payload of an event, <<>> when there is none.
ManuPayload(e) ==
    IF CompanyId \in DOMAIN e.manufacturer_data THEN e.manufacturer_data[CompanyId] ELSE <<>>

ZeroTyped(p) == p # <<>> /\ p[1] = 0

\* C1: with the MAC allow-list present and empty, every event is rejected by
\* the address filter and renders nothing, in both variants.
C1_EmptyListRejectsAll ==
    mac_filter = Some({}) =>
        \A i \in DOMAIN log : log[i].rejected /\ log[i].lines = <<>>

\* C4: in the service-data variant an "unknown sensor" line is printed only
\* for type codes other than 0 and 1; a type-1 payload of 1 or 2 bytes is
\* never reported as unknown.
C4_ShortTempNotUnknown ==
    variant = "uuid128" =>
        \A i \in DOMAIN log : \A k \in DOMAIN log[i].lines :
            log[i].lines[k].kind = "unknown" => log[i].lines[k].val \notin {0, 1}

\* C5: a payload whose first byte is 0 renders no line: in the
\* manufacturer-data variant the event renders nothing, in the service-data
\* variant there are at most as many lines as entries whose payload does not
\* start with 0, and no line reports type 0.
C5_TypeZeroSilent ==
    \A i \in DOMAIN log :
        LET e == log[i].ev
            sd == e.service_data
        IN  /\ ZeroTyped(ManuPayload(e)) => log[i].lines = <<>>
            /\ Len(log[i].lines) <= Cardinality({ k \in DOMAIN sd : ~ZeroTyped(sd[k][2]) })
                                     + (IF variant = "manu" THEN 1 ELSE 0)
            /\ \A k \in DOMAIN log[i].lines :
                   log[i].lines[k].kind = "unknown" => log[i].lines[k].val # 0

C5_Witness ==
    \E i \in DOMAIN log :
        \/ /\ variant = "manu" /\ ~log[i].rejected
           /\ Len(ManuPayload(log[i].ev)) >= 3 /\ ZeroTyped(ManuPayload(log[i].ev))
           /\ mac_filter.some /\ log[i].lines = <<>>
        \/ /\ variant = "uuid128" /\ ~log[i].rejected /\ log[i].parsed = 2
           /\ \E k \in DOMAIN log[i].ev.service_data :
                  /\ ZeroTyped(log[i].ev.service_data[k][2])
                  /\ Len(log[i].ev.service_data[k][2]) = 3
           /\ Len(log[i].lines) = 1

\* The service-data entries of e that qualify for a reading under uuidf.
Qualifying(e, uuidf) ==
    { k \in DOMAIN e.service_data :
        /\ (~uuidf.some \/ Lower(e.service_data[k][1]) \in uuidf.val)
        /\ e.service_data[k][2] # <<>>
        /\ e.service_data[k][2][1] # 0 }

Permuted(e, f) ==
    [e EXCEPT !.service_data = [k \in DOMAIN e.service_data |-> e.service_data[f[k]]]]

\* C6: in the service-data variant an event whose address passes renders
\* exactly one line per qualifying entry, each under the entry's lower-cased
\* UUID, none for an unlisted UUID, and the same multiset of lines for every
\* enumeration order of the entries.
C6_OnePerQualifyingEntry ==
    variant = "uuid128" =>
        \A i \in DOMAIN log :
            LET e == log[i].ev
                q == Qualifying(e, uuid128_filter)
            IN  (~mac_filter.some \/ Upper(e.address) \in mac_filter.val) =>
                  /\ Len(log[i].lines) = Cardinality(q)
                  /\ \A u \in { Lower(w) : w \in Uuids } :
                        Cardinality({ k \in DOMAIN log[i].lines : log[i].lines[k].uuid = u })
                          = Cardinality({ k \in q : Lower(e.service_data[k][1]) = u })
                  /\ \A f \in Perms(Len(e.service_data)) :
                        BagOfSeq(callback_uuid128(Permuted(e, f), mac_filter, uuid128_filter).lines)
                          = BagOfSeq(log[i].lines)

C6_Witness ==
    /\ variant = "uuid128" /\ uuid128_filter.some /\ mac_filter.some
    /\ \E i \in DOMAIN log :
          /\ ~log[i].rejected
          /\ Len(log[i].ev.service_data) = 2
          /\ Cardinality(Qualifying(log[i].ev, uuid128_filter)) = 1
          /\ Cardinality(Qualifying(log[i].ev, None)) = 2
          /\ Len(log[i].lines) = 1
          /\ log[i].lines[1].kind = "temp" /\ log[i].lines[1].val = 100

\* C7: in the manufacturer-data variant an event renders no line when the
\* address is rejected, when there is no 0xFFFF payload, when that payload has
\* fewer than 3 bytes or when its type byte is 0, and exactly one line
\* otherwise; payloads of other companies render nothing.
C7_AtMostOneReading ==
    variant = "manu" =>
        \A i \in DOMAIN log :
            LET e == log[i].ev
                has == CompanyId \in DOMAIN e.manufacturer_data
                p == ManuPayload(e)
            IN  /\ Len(log[i].lines) <= 1
                /\ (log[i].rejected \/ ~has \/ Len(p) < 3 \/ p[1] = 0)
                      => log[i].lines = <<>>
                /\ (~log[i].rejected /\ has /\ Len(p) >= 3 /\ p[1] # 0)
                      => Len(log[i].lines) = 1

C7_Witness ==
    /\ variant = "manu"
    /\ \E i \in DOMAIN log :
          /\ ~log[i].rejected
          /\ DOMAIN log[i].ev.manufacturer_data = {76}
          /\ log[i].lines = <<>>

\* C8: with a non-empty MAC allow-list an event is rejected, before any
\* payload is decoded, exactly when its upper-cased address is not in the
\* list; with no allow-list no event is rejected.  Both variants.
C8_AddressFilter ==
    \A i \in DOMAIN log :
        /\ (mac_filter.some /\ mac_filter.val # {}) =>
              /\ log[i].rejected <=> Upper(log[i].ev.address) \notin mac_filter.val
              /\ log[i].rejected => log[i].parsed = 0 /\ log[i].lines = <<>>
        /\ ~mac_filter.some => ~log[i].rejected

C8_Witness ==
    /\ mac_filter.some /\ mac_filter.val # {}
    /\ \E i \in DOMAIN log :
          /\ Upper(log[i].ev.address) # log[i].ev.address
          /\ Upper(log[i].ev.address) \in mac_filter.val
          /\ ~log[i].rejected
          /\ log[i].lines # <<>>

\* C2: once scanner.start() has succeeded, run() calls scanner.stop() exactly
\* once on every way out of Scanning, and never more than once.
C2_StopExactlyOnce ==
    /\ stop_calls <= 1
    /\ pc = "Stopped" => stop_calls = 1
    /\ pc \in {"Idle", "Failed", "Scanning", "Teardown"} => stop_calls = 0
    /\ exit_reason \in {"timeout", "interrupt", "failure"} => pc \in {"Teardown", "Stopped"}

C2_Witness == pc = "Stopped" /\ exit_reason = "failure" /\ stop_calls = 1 /\ log # <<>>

\* C3: whenever -t gives a non-negative duration, 0 included, the driver
\* leaves Scanning without an interrupt.
C3_TimedScanEnds ==
    [](scan_time.some /\ scan_time.val >= 0 /\ pc = "Scanning" => <>(pc # "Scanning"))

\* The temperature frame of the claim: first byte 1, at least 3 bytes.
TempFrame(p) == Len(p) >= 3 /\ p[1] = 1

\* The signed 16-bit value of bytes 1 and 2 (Python indices), low byte first.
S16(p) == p[2] + 256 * p[3] - (IF p[3] >= 128 THEN 65536 ELSE 0)

\* C9: a payload with first byte 1 and at least 3 bytes renders a temperature
\* whose centi-degree value is payload[1] + 256 * payload[2], minus 65536
\* when payload[2] >= 128; it lies in -32768..32767 and later bytes do not
\* change it.  Both variants.
C9_SignedLittleEndian ==
    \A i \in DOMAIN log :
        LET e == log[i].ev
            sd == e.service_data
            ls == log[i].lines
        IN  ~log[i].rejected =>
              /\ (variant = "manu" /\ TempFrame(ManuPayload(e))) =>
                    /\ Len(ls) = 1
                    /\ ls[1].kind = "temp"
                    /\ ls[1].val = S16(ManuPayload(e))
              /\ variant = "uuid128" =>
                    \A k \in DOMAIN sd :
                        (TempFrame(sd[k][2]) /\ ~uuid_skipped(Lower(sd[k][1]), uuid128_filter)) =>
                          \E n \in DOMAIN ls :
                              /\ ls[n].kind = "temp"
                              /\ ls[n].uuid = Lower(sd[k][1])
                              /\ ls[n].val = S16(sd[k][2])
              /\ \A n \in DOMAIN ls :
                    ls[n].kind = "temp" => ls[n].val \in (-32768)..32767

C9_Witness ==
    \E i \in DOMAIN log :
        /\ variant = "uuid128"
        /\ log[i].ev.service_data[1][2] = <<1, 255, 255, 200>>
        /\ Len(log[i].lines) = 1
        /\ log[i].lines[1].val = -1

\* Identical events of the log rendered identical lines.
Repeatable ==
    \A i, j \in DOMAIN log : log[i].ev = log[j].ev => log[i].lines = log[j].lines

\* C10: no step of a run changes the MAC or the UUID allow-list, and after
\* every step identical events of the log have rendered identical lines,
\* whatever was handled in between.
C10_HandlerStateless ==
    [][ /\ mac_filter' = mac_filter
        /\ uuid128_filter' = uuid128_filter
        /\ Repeatable' ]_vars

C10_Witness ==
    /\ Len(log) = 3
    /\ mac_filter.some
    /\ log[1].ev = log[3].ev
    /\ log[2].ev # log[1].ev
    /\ log[1].lines # <<>>
    /\ log[2].lines # <<>>
    /\ log[3].lines = log[1].lines

====
